---- MODULE Spec2Model ----
(***************************************************************************)
(* Model of javascript/node/selenium-webdriver/edge.js: the Options        *)
(* capability plumbing, the ServiceBuilder, the process-wide default       *)
(* driver service and the Driver facade whose quit() also kills the        *)
(* driver service.                                                         *)
(***************************************************************************)
EXTENDS Integers, FiniteSets, Sequences, TLC

\* ------------------------------------------------------------------ bounds
MaxServices == 2
MaxDrivers == 2
MaxPort == 1

\* ------------------------------------------------------- program constants
\* var defaultService = null
NoService == 0
\* ServiceBuilder.prototype.port_ = 0
DefaultPort == 0

ServiceIds == 1..MaxServices
DriverIds == 1..MaxDrivers
PortArgs == (0 - 1)..MaxPort

VARIABLES
  defaultService,   \* the module variable defaultService (NoService = null)
  nextSvc,          \* number of DriverService objects constructed so far
  running,          \* running[s]: DriverService s reports isRunning()
  builderPort,      \* port_ of the caller's ServiceBuilder
  drvService,       \* drvService[d]: the closure variable service of Driver d
  quitPc,           \* position of Driver d inside its quit() override
  sessOutcome,      \* how the pending inherited quit of Driver d settled
  lastOp,           \* the last call made and what it returned or threw
  lastGet,          \* instance returned by getDefaultService since the last replace
  implicitSince,    \* Drivers built without opt_service since the last replace
  opts,             \* an Options instance: its options_ and proxy_
  extractedFrom,    \* the map fromCapabilities built opts from, while unmodified
  arg,              \* capabilities map the last call received (after || default)
  ret               \* capabilities map or JSON object the last call returned

lifeVars == <<defaultService, nextSvc, running, builderPort, drvService, quitPc,
              sessOutcome, lastGet, implicitSince>>
optVars == <<opts, extractedFrom, arg, ret>>
vars == <<lifeVars, optVars, lastOp>>

\* A call record: the operation, the Driver and service it concerns, the port
\* involved, a flag (build: the port is probed; Driver and toCapabilities:
\* the optional argument was omitted; kill: the session quit had failed), whether it returned normally and, for
\* the end of a quit(), the errors the promise it returned is rejected with.
OpErrs(op, drv, svc, port, flag, ok, errs) ==
  [op |-> op, drv |-> drv, svc |-> svc, port |-> port, flag |-> flag, ok |-> ok,
   errs |-> errs]

Op(op, drv, svc, port, flag, ok) == OpErrs(op, drv, svc, port, flag, ok, {})

\* ------------------------------------------------- remote.DriverService
\* isRunning() of the service object s.
isRunning(s) == running[s]

\* start(): spawns the driver process unless the service already runs.
start(r, s) == [r EXCEPT ![s] = TRUE]

\* kill(): terminates the driver process; outcome "fail" leaves it alive.
kill(r, s, outcome) == IF outcome = "ok" THEN [r EXCEPT ![s] = FALSE] ELSE r

\* promise.thenFinally(callback): the errors of the returned promise, given
\* how the receiver settled and how the callback settled.  When both fail
\* the session error is kept, alone or together with the callback's error.
thenFinally(settled, callback, both) ==
  (IF settled = "fail" THEN {"session"} ELSE {})
    \cup (IF callback = "fail" /\ (settled # "fail" \/ both) THEN {"kill"} ELSE {})

\* ------------------------------------------------------- ServiceBuilder
UsingPortAcceptsAll(port) == FALSE

\* usingPort: if (port < 0) throw
UsingPortThrows(port) == port < 0

\* build: var port = this.port_ || portprober.findFreePort()
BuildUsesProbe(port_) == port_ = DefaultPort

\* ServiceBuilder.prototype.usingPort
usingPort(port) ==
  /\ IF UsingPortThrows(port)
       THEN /\ UNCHANGED builderPort
            /\ lastOp' = Op("usingPort", 0, NoService, port, FALSE, FALSE)
       ELSE /\ builderPort' = port
            /\ lastOp' = Op("usingPort", 0, NoService, port, FALSE, TRUE)
  /\ UNCHANGED <<defaultService, nextSvc, running, drvService, quitPc,
                 sessOutcome, lastGet, implicitSince>>
  /\ UNCHANGED optVars

\* ServiceBuilder.prototype.build, on the caller's builder: a new service
\* descriptor; no process is started.
build ==
  /\ nextSvc < MaxServices
  /\ nextSvc' = nextSvc + 1
  /\ lastOp' = Op("build", 0, nextSvc + 1,
                  IF BuildUsesProbe(builderPort) THEN 0 ELSE builderPort,
                  BuildUsesProbe(builderPort), TRUE)
  /\ UNCHANGED <<defaultService, running, builderPort, drvService, quitPc,
                 sessOutcome, lastGet, implicitSince>>
  /\ UNCHANGED optVars

\* ------------------------------------------------------ default service
SetDefaultServiceNeverThrows == FALSE

\* setDefaultService: if (defaultService && defaultService.isRunning()) throw
SetDefaultServiceThrows ==
  defaultService # NoService /\ isRunning(defaultService)

\* setDefaultService(service)
setDefaultService(service) ==
  /\ IF SetDefaultServiceThrows
       THEN /\ UNCHANGED <<defaultService, lastGet, implicitSince>>
            /\ lastOp' = Op("setDefaultService", 0, service, 0, FALSE, FALSE)
       ELSE /\ defaultService' = service
            /\ lastGet' = NoService
            /\ implicitSince' = {}
            /\ lastOp' = Op("setDefaultService", 0, service, 0, FALSE, TRUE)
  /\ UNCHANGED <<nextSvc, running, builderPort, drvService, quitPc,
                 sessOutcome>>
  /\ UNCHANGED optVars

GetDefaultServiceAlwaysBuilds == TRUE

\* getDefaultService: if (!defaultService)
GetDefaultServiceBuilds == defaultService = NoService

\* What getDefaultService does: found tells whether new ServiceBuilder()
\* located the executable on the PATH (it throws otherwise).
DefaultResolution(found) ==
  IF ~GetDefaultServiceBuilds
    THEN [ok |-> TRUE, svc |-> defaultService, built |-> FALSE]
    ELSE IF found
      THEN [ok |-> TRUE, svc |-> nextSvc + 1, built |-> TRUE]
      ELSE [ok |-> FALSE, svc |-> NoService, built |-> FALSE]

\* getDefaultService()
getDefaultService(found) ==
  LET r == DefaultResolution(found) IN
  /\ r.built => nextSvc < MaxServices
  /\ nextSvc' = IF r.built THEN nextSvc + 1 ELSE nextSvc
  /\ defaultService' = IF r.ok THEN r.svc ELSE defaultService
  /\ lastGet' = IF r.ok THEN r.svc ELSE lastGet
  /\ lastOp' = Op("getDefaultService", 0, r.svc,
                  0, r.built /\ BuildUsesProbe(DefaultPort), r.ok)
  /\ UNCHANGED <<running, builderPort, drvService, quitPc, sessOutcome,
                 implicitSince>>
  /\ UNCHANGED optVars

\* ---------------------------------------------------------------- Driver
NumDrivers == Cardinality({d \in DriverIds : drvService[d] # NoService})

\* new Driver(opt_config, opt_service): opt_service = NoService when omitted;
\* found is read only when getDefaultService is called.
Driver(opt_service, found) ==
  LET d == NumDrivers + 1
      implicit == opt_service = NoService
      r == IF implicit THEN DefaultResolution(found)
           ELSE [ok |-> TRUE, svc |-> opt_service, built |-> FALSE]
  IN
  /\ d \in DriverIds
  /\ implicit \/ found
  /\ r.built => nextSvc < MaxServices
  /\ nextSvc' = IF r.built THEN nextSvc + 1 ELSE nextSvc
  /\ defaultService' = IF implicit /\ r.ok THEN r.svc ELSE defaultService
  /\ lastGet' = IF implicit /\ r.ok THEN r.svc ELSE lastGet
  /\ IF r.ok
       THEN /\ running' = start(running, r.svc)
            /\ drvService' = [drvService EXCEPT ![d] = r.svc]
            /\ implicitSince' = IF implicit THEN implicitSince \cup {d}
                                ELSE implicitSince
            /\ lastOp' = Op("Driver", d, r.svc, 0, implicit, TRUE)
       ELSE /\ UNCHANGED <<running, drvService, implicitSince>>
            /\ lastOp' = Op("Driver", 0, NoService, 0, implicit, FALSE)
  /\ UNCHANGED <<builderPort, quitPc, sessOutcome>>
  /\ UNCHANGED optVars

\* driver.quit(): the override calls boundQuit().
quit(d) ==
  /\ drvService[d] # NoService
  /\ quitPc[d] = "idle"
  /\ quitPc' = [quitPc EXCEPT ![d] = "pending"]
  /\ sessOutcome' = [sessOutcome EXCEPT ![d] = "none"]
  /\ lastOp' = Op("quit", d, drvService[d], 0, FALSE, TRUE)
  /\ UNCHANGED <<defaultService, nextSvc, running, builderPort, drvService,
                 lastGet, implicitSince>>
  /\ UNCHANGED optVars

\* The inherited quit (closing the remote session) settles.
sessionQuitSettles(d, outcome) ==
  /\ quitPc[d] = "pending"
  /\ quitPc' = [quitPc EXCEPT ![d] = "settled"]
  /\ sessOutcome' = [sessOutcome EXCEPT ![d] = outcome]
  /\ lastOp' = Op("sessionQuit", d, drvService[d], 0, FALSE, outcome = "ok")
  /\ UNCHANGED <<defaultService, nextSvc, running, builderPort, drvService,
                 lastGet, implicitSince>>
  /\ UNCHANGED optVars

KillBeforeSettled(d) == quitPc[d] \in {"pending", "settled"}

\* boundQuit().thenFinally(...): the callback runs once boundQuit() settled.
KillEnabled(d) == quitPc[d] = "settled"

KillTargetCurrentDefault(d) ==
  IF defaultService = NoService THEN drvService[d] ELSE defaultService

\* service.kill.bind(service): the service captured by the constructor.
KillTarget(d) == drvService[d]

QuitResultSwallowed(settled, callback, both) ==
  IF callback = "fail" THEN {"kill"} ELSE {}

\* return boundQuit().thenFinally(service.kill.bind(service))
QuitResult(settled, callback, both) == thenFinally(settled, callback, both)

\* The thenFinally callback of quit(): service.kill(), which ends quit().
\* both is read only when the session quit and the kill both fail.
serviceKill(d, outcome, both) ==
  /\ drvService[d] # NoService
  /\ KillEnabled(d)
  /\ both => (outcome = "fail" /\ sessOutcome[d] = "fail")
  /\ running' = kill(running, KillTarget(d), outcome)
  /\ quitPc' = [quitPc EXCEPT ![d] = "idle"]
  /\ sessOutcome' = [sessOutcome EXCEPT ![d] = "none"]
  /\ lastOp' = OpErrs("kill", d, KillTarget(d), 0, sessOutcome[d] = "fail",
                      outcome = "ok", QuitResult(sessOutcome[d], outcome, both))
  /\ UNCHANGED <<defaultService, nextSvc, builderPort, drvService,
                 lastGet, implicitSince>>
  /\ UNCHANGED optVars

\* ---------------------------------------------------------- Capabilities
Keys == {"browserName", "pageLoadStrategy", "proxy", "platform"}

\* The values a capability may hold; "null" is the JavaScript null.
KeyValues(k) ==
  CASE k = "browserName" -> {"MicrosoftEdge"}
    [] k = "pageLoadStrategy" -> {"null", "eager", "EAGER"}
    [] k = "proxy" -> {"null", "direct"}
    [] k = "platform" -> {"WINDOWS"}

AllValues == UNION {KeyValues(k) : k \in Keys}

\* Capabilities maps: partial maps from capability name to value.
CapsMaps ==
  UNION {{f \in [D -> AllValues] : \A k \in D : f[k] \in KeyValues(k)} :
         D \in SUBSET Keys}

EmptyMap == [k \in {} |-> "null"]

\* Marks an Options instance that is not the unmodified result of
\* fromCapabilities.
NotExtracted == [k \in {"none"} |-> "none"]

\* webdriver.Capability.PROXY
PROXY == "proxy"

\* capabilities.has(key), capabilities.get(key), capabilities.set(key, value)
has(caps, key) == key \in DOMAIN caps

get(caps, key) == caps[key]

set(caps, key, value) ==
  [k \in DOMAIN caps \cup {key} |-> IF k = key THEN value ELSE caps[k]]

\* webdriver.Capabilities.edge(): only the browser identity marker.
edge == [k \in {"browserName"} |-> "MicrosoftEdge"]

\* ---------------------------------------------------------------- Options
\* var CAPABILITY_KEY = { PAGE_LOAD_STRATEGY: 'pageLoadStrategy' }
CAPABILITY_KEY == {"pageLoadStrategy"}

\* String.prototype.toLowerCase on the strategy names used here.
toLowerCase(s) == IF s = "EAGER" THEN "eager" ELSE s

\* new Options()
NewOptions == [options_ |-> EmptyMap, proxy_ |-> "null"]

FromCapabilitiesCopiesAll(capabilities) == DOMAIN capabilities \ {PROXY}

\* fromCapabilities: the keys copied into options_
FromCapabilitiesKeys(capabilities) ==
  {key \in CAPABILITY_KEY : has(capabilities, key)}

\* Options.fromCapabilities(capabilities)
fromCapabilities(capabilities) ==
  [options_ |-> [key \in FromCapabilitiesKeys(capabilities) |->
                   get(capabilities, key)],
   proxy_ |-> IF has(capabilities, PROXY) THEN get(capabilities, PROXY)
              ELSE NewOptions.proxy_]

\* Options.prototype.setProxy
setProxy(o, proxy) == [o EXCEPT !.proxy_ = proxy]

\* Options.prototype.setPageLoadStrategy
setPageLoadStrategy(o, pageLoadStrategy) ==
  [o EXCEPT !.options_ =
     set(o.options_, "pageLoadStrategy", toLowerCase(pageLoadStrategy))]

ToCapabilitiesAlwaysSetsProxy(o) == TRUE

\* toCapabilities: if (this.proxy_)
ToCapabilitiesSetsProxy(o) == o.proxy_ # "null"

\* Options.prototype.toCapabilities, on capabilities = opt_capabilities ||
\* webdriver.Capabilities.edge()
toCapabilities(o, capabilities) ==
  LET withProxy == IF ToCapabilitiesSetsProxy(o)
                     THEN set(capabilities, PROXY, o.proxy_)
                     ELSE capabilities
  IN [k \in DOMAIN withProxy \cup DOMAIN o.options_ |->
        IF k \in DOMAIN o.options_ THEN o.options_[k] ELSE withProxy[k]]

\* serialize: if (this.options_[key] != null)
SerializeKeeps(value) == value # "null"

\* Options.prototype.serialize
serialize(o) ==
  [key \in {k \in DOMAIN o.options_ : SerializeKeeps(o.options_[k])} |->
     o.options_[key]]

\* options = Options.fromCapabilities(capabilities)
OptFromCapabilities(capabilities) ==
  /\ opts' = fromCapabilities(capabilities)
  /\ extractedFrom' = capabilities
  /\ arg' = capabilities
  /\ ret' = EmptyMap
  /\ lastOp' = Op("fromCapabilities", 0, NoService, 0, FALSE, TRUE)
  /\ UNCHANGED lifeVars

\* options.setProxy(proxy)
OptSetProxy(proxy) ==
  /\ opts' = setProxy(opts, proxy)
  /\ extractedFrom' = NotExtracted
  /\ arg' = EmptyMap
  /\ ret' = EmptyMap
  /\ lastOp' = Op("setProxy", 0, NoService, 0, FALSE, TRUE)
  /\ UNCHANGED lifeVars

\* options.setPageLoadStrategy(pageLoadStrategy)
OptSetPageLoadStrategy(pageLoadStrategy) ==
  /\ opts' = setPageLoadStrategy(opts, pageLoadStrategy)
  /\ extractedFrom' = NotExtracted
  /\ arg' = EmptyMap
  /\ ret' = EmptyMap
  /\ lastOp' = Op("setPageLoadStrategy", 0, NoService, 0, FALSE, TRUE)
  /\ UNCHANGED lifeVars

\* options.toCapabilities(opt_capabilities); omitted tells that the argument
\* was left out, so that a fresh Capabilities.edge() is used.
OptToCapabilities(opt_capabilities, omitted) ==
  LET capabilities == IF omitted THEN edge ELSE opt_capabilities IN
  /\ omitted => opt_capabilities = EmptyMap
  /\ arg' = capabilities
  /\ ret' = toCapabilities(opts, capabilities)
  /\ lastOp' = Op("toCapabilities", 0, NoService, 0, omitted, TRUE)
  /\ UNCHANGED <<opts, extractedFrom>>
  /\ UNCHANGED lifeVars

\* options.serialize()
OptSerialize ==
  /\ ret' = serialize(opts)
  /\ arg' = EmptyMap
  /\ lastOp' = Op("serialize", 0, NoService, 0, FALSE, TRUE)
  /\ UNCHANGED <<opts, extractedFrom>>
  /\ UNCHANGED lifeVars

\* ---------------------------------------------------------- specification
InitLife ==
  /\ defaultService = NoService
  /\ nextSvc = 0
  /\ running = [s \in ServiceIds |-> FALSE]
  /\ builderPort = DefaultPort
  /\ drvService = [d \in DriverIds |-> NoService]
  /\ quitPc = [d \in DriverIds |-> "idle"]
  /\ sessOutcome = [d \in DriverIds |-> "none"]
  /\ lastGet = NoService
  /\ implicitSince = {}
  /\ lastOp = Op("init", 0, NoService, 0, FALSE, TRUE)

InitOpts ==
  /\ opts = NewOptions
  /\ extractedFrom = NotExtracted
  /\ arg = EmptyMap
  /\ ret = EmptyMap

Init == InitLife /\ InitOpts

NextLife ==
  \/ build
  \/ \E service \in 0..nextSvc : setDefaultService(service)
  \/ \E found \in BOOLEAN : getDefaultService(found)
  \/ \E opt_service \in 0..nextSvc, found \in BOOLEAN : Driver(opt_service, found)
  \/ \E d \in DriverIds : quit(d)
  \/ \E d \in DriverIds, outcome \in {"ok", "fail"} : sessionQuitSettles(d, outcome)
  \/ \E d \in DriverIds, outcome \in {"ok", "fail"}, both \in BOOLEAN :
       serviceKill(d, outcome, both)

\* Every operation on the default service and the Drivers, with the caller's
\* ServiceBuilder left at its default port.
Spec == Init /\ [][NextLife]_vars

NextBuilder ==
  \/ \E port \in PortArgs : usingPort(port)
  \/ build
  \/ \E service \in 0..nextSvc : setDefaultService(service)
  \/ \E found \in BOOLEAN : getDefaultService(found)
  \/ \E opt_service \in 0..nextSvc, found \in BOOLEAN : Driver(opt_service, found)

\* The caller's ServiceBuilder, the services built from it and the Drivers
\* started on them.
SpecBuilder == Init /\ [][NextBuilder]_vars

\* The promise library runs a settled promise's callbacks: the kill callback
\* of a quit() whose session quit has settled is eventually run.
NextOptions ==
  \/ \E capabilities \in CapsMaps : OptFromCapabilities(capabilities)
  \/ \E proxy \in KeyValues(PROXY) : OptSetProxy(proxy)
  \/ \E s \in KeyValues("pageLoadStrategy") \ {"null"} : OptSetPageLoadStrategy(s)
  \/ \E base \in CapsMaps, omitted \in BOOLEAN : OptToCapabilities(base, omitted)
  \/ OptSerialize

\* The Options instance and the capabilities maps on their own.
SpecOptions == Init /\ [][NextOptions]_vars

LiveSpec == Spec /\ \A d \in DriverIds :
  WF_vars(\E outcome \in {"ok", "fail"}, both \in BOOLEAN : serviceKill(d, outcome, both))

\* ------------------------------------------------------------------ claims
Running(s) == s # NoService /\ running[s]

\* C1: setDefaultService(s) throws and keeps the stored reference while the
\* stored default service is running, and otherwise succeeds and stores s;
\* no step at all changes the stored reference while the previously stored
\* service is running.
C1_SetDefaultServiceGuard ==
  [][/\ lastOp'.op = "setDefaultService" =>
          IF Running(defaultService)
            THEN ~lastOp'.ok /\ defaultService' = defaultService
            ELSE lastOp'.ok /\ defaultService' = lastOp'.svc
     /\ Running(defaultService) => defaultService' = defaultService]_vars

C1_Witness ==
  /\ lastOp.op = "setDefaultService"
  /\ ~lastOp.ok
  /\ Running(defaultService)
  /\ lastOp.svc # defaultService

C3_OneDefaultServiceShared ==
  /\ [](\A d \in implicitSince : drvService[d] = defaultService)
  /\ [][(lastOp'.op = "Driver" /\ lastOp'.flag /\ lastOp'.ok
           /\ NumDrivers' = NumDrivers + 1) =>
          IF defaultService = NoService
            THEN /\ nextSvc' = nextSvc + 1
                 /\ defaultService' = nextSvc'
                 /\ drvService'[lastOp'.drv] = defaultService'
                 /\ running'[defaultService']
                 /\ \A s \in ServiceIds \ {defaultService'} :
                      running'[s] = running[s]
            ELSE /\ nextSvc' = nextSvc
                 /\ defaultService' = defaultService
                 /\ drvService'[lastOp'.drv] = defaultService
                 /\ running'[defaultService]
                 /\ \A s \in ServiceIds \ {defaultService} :
                      running'[s] = running[s]]_vars

C3_Witness ==
  /\ Cardinality(implicitSince) = 2
  /\ lastOp.op = "Driver" /\ lastOp.flag /\ lastOp.ok
  /\ \A d \in implicitSince : drvService[d] = defaultService
  /\ Running(defaultService)

\* C4: the default service, once started, is not terminated (by anything
\* short of process exit, which is no step of this module).
C4_DefaultServiceNeverKilled ==
  [][Running(defaultService) => running'[defaultService]]_vars

\* C5: getDefaultService() builds and stores a service only when none is
\* stored; otherwise it returns the stored instance, leaves the reference
\* alone and builds nothing.  Two calls with no successful setDefaultService
\* between them return the same instance.
C5_GetDefaultServiceIdempotent ==
  [][(lastOp'.op = "getDefaultService" /\ lastOp'.ok) =>
       /\ lastOp'.svc = defaultService'
       /\ IF defaultService # NoService
            THEN defaultService' = defaultService /\ nextSvc' = nextSvc
            ELSE nextSvc' = nextSvc + 1 /\ defaultService' = nextSvc'
       /\ lastGet # NoService => lastOp'.svc = lastGet]_vars

C5_Witness ==
  /\ lastOp.op = "getDefaultService" /\ lastOp.ok
  /\ ~lastOp.flag
  /\ lastOp.svc = defaultService
  /\ nextSvc = 1

\* C6: within quit() the service kill runs only after the session quit has
\* settled, successfully or not.
C6_SessionQuitBeforeKill ==
  [][\A d \in DriverIds :
       /\ (quitPc[d] = "pending" /\ quitPc'[d] # "pending") =>
            (lastOp'.op = "sessionQuit" /\ running' = running)
       /\ (lastOp'.op = "kill" /\ lastOp'.drv = d) =>
            sessOutcome[d] \in {"ok", "fail"}]_vars

C6_Witness ==
  \E d \in DriverIds :
    /\ quitPc[d] = "idle"
    /\ lastOp.op = "kill" /\ lastOp.drv = d /\ lastOp.ok /\ ~lastOp.flag
    /\ ~running[drvService[d]]

RecognizedIn(capabilities) == {"pageLoadStrategy"} \cap DOMAIN capabilities

\* C7 as stated: serialize() of fromCapabilities(c) holds exactly the
\* recognized keys present in c, each with c's value.
C7_SerializeExactlyRecognizedPresent ==
  (lastOp.op = "serialize" /\ extractedFrom # NotExtracted) =>
    /\ DOMAIN ret = RecognizedIn(extractedFrom)
    /\ \A k \in DOMAIN ret : ret[k] = extractedFrom[k]

\* C7 amended: serialize() of fromCapabilities(c) holds exactly the
\* recognized keys present in c with a value other than null, each with c's
\* value; no unrecognized key and no proxy entry appears.
C7_SerializeRecognizedNonNull ==
  (lastOp.op = "serialize" /\ extractedFrom # NotExtracted) =>
    /\ DOMAIN ret = {k \in RecognizedIn(extractedFrom) : extractedFrom[k] # "null"}
    /\ \A k \in DOMAIN ret : ret[k] = extractedFrom[k]

C7_Witness ==
  /\ lastOp.op = "serialize"
  /\ extractedFrom \in CapsMaps
  /\ DOMAIN extractedFrom = Keys
  /\ extractedFrom["pageLoadStrategy"] = "EAGER"
  /\ extractedFrom["proxy"] = "direct"
  /\ DOMAIN ret = {"pageLoadStrategy"}

ChangedByToCapabilities ==
  (IF opts.proxy_ # "null" THEN {"proxy"} ELSE {}) \cup DOMAIN opts.options_

\* C8: toCapabilities(base) leaves every key of base other than proxy (when
\* a proxy is stored) and the keys of the settings map as it was, and adds
\* no other key; on an empty Options with no base it returns the default
\* map, holding only the browser identity marker.
C8_ToCapabilitiesFrame ==
  lastOp.op = "toCapabilities" =>
    /\ \A k \in (DOMAIN arg \cup DOMAIN ret) \ ChangedByToCapabilities :
         k \in DOMAIN arg /\ k \in DOMAIN ret /\ ret[k] = arg[k]
    /\ (lastOp.flag /\ opts.proxy_ = "null" /\ DOMAIN opts.options_ = {}) =>
         (DOMAIN ret = {"browserName"} /\ ret["browserName"] = "MicrosoftEdge")

C8_Witness ==
  /\ lastOp.op = "toCapabilities" /\ ~lastOp.flag
  /\ DOMAIN arg = Keys
  /\ opts.proxy_ = "direct" /\ arg["proxy"] = "null"
  /\ DOMAIN opts.options_ = {"pageLoadStrategy"}
  /\ ret["platform"] = "WINDOWS" /\ ret["proxy"] = "direct"

\* C9: usingPort(port) with port < 0 throws, keeps the stored port and
\* spawns nothing; with port >= 0 it stores the port; build() with a stored
\* port of 0 uses a probed free port and otherwise the stored port, and
\* spawns nothing either.
C9_UsingPortRejectsNegative ==
  [][/\ lastOp'.op = "usingPort" =>
          /\ running' = running /\ nextSvc' = nextSvc
          /\ IF lastOp'.port < 0
               THEN ~lastOp'.ok /\ builderPort' = builderPort
               ELSE lastOp'.ok /\ builderPort' = lastOp'.port
     /\ (lastOp'.op = "build" /\ nextSvc' # nextSvc) =>
          /\ running' = running
          /\ IF builderPort = 0 THEN lastOp'.flag
             ELSE ~lastOp'.flag /\ lastOp'.port = builderPort]_vars

C9_Witness ==
  /\ lastOp.op = "usingPort" /\ lastOp.port < 0 /\ ~lastOp.ok
  /\ builderPort > 0
  /\ \A s \in ServiceIds : ~running[s]

====
